---- MODULE Spec2Model ----
(***************************************************************************)
(* django-cache-machine (caching/base.py): a read-through query cache with *)
(* flush-list invalidation.  The model keeps one relational table (Widget, *)
(* with a foreign key to Owner), one shared cache store, and a few workers *)
(* that execute querysets and save/delete records.                         *)
(***************************************************************************)
EXTENDS Integers, Sequences, FiniteSets, TLC

\* ------------------------------------------------------------------ bounds
\* How many saves and deletes a behaviour starts.
MaxMutations == 2

\* How many queryset objects a worker builds.
MaxQuerySets == 3

\* Worker processes sharing the cache store and the database.
Workers == {1, 2}

\* ------------------------------------------------------- program constants
FOREVER == 0
NO_CACHE == -1
FETCH_BY_ID == FALSE

\* Optional values (Python None) are sequences of length 0 or 1.
None == << >>
Some(v) == << v >>

\* ------------------------------------------------------------ data domains
Colors == {"red", "blue"}
Owners == {1}
OwnerVals == {None} \cup {Some(o) : o \in Owners}

\* The timeouts a queryset can carry: None (the constructor's default),
\* the NO_CACHE sentinel.
Timeouts == {None, Some(NO_CACHE)}

\* The querysets the workers issue, by the text of their compiled form.
\*   pk1            Widget.objects.filter(pk=1)
\*   red            Widget.objects.filter(color='red')
\*   pk_in_empty    Widget.objects.filter(pk__in=[])
\*   color_in_empty Widget.objects.filter(color__in=[])
Queries == {"pk1", "red", "pk_in_empty", "color_in_empty"}

\* query.where: the (field, lookup, value annotation) children of the tree.
Where(q) ==
    CASE q = "pk1" -> << [field |-> "id", lookup |-> "exact", annot |-> TRUE] >>
      [] q = "red" -> << [field |-> "color", lookup |-> "exact", annot |-> TRUE] >>
      [] q = "pk_in_empty" -> << [field |-> "id", lookup |-> "in", annot |-> FALSE] >>
      [] q = "color_in_empty" -> << [field |-> "color", lookup |-> "in", annot |-> FALSE] >>

\* as_sql() raises EmptyResultSet for an `in` lookup over an empty list.
EmptyResultSet(q) ==
    \E i \in 1..Len(Where(q)) : Where(q)[i].lookup = "in" /\ ~Where(q)[i].annot

\* Whether a row satisfies the query's WHERE clause.
Matches(q, row) ==
    CASE q = "pk1" -> row.id = 1
      [] q = "red" -> row.color = "red"
      [] OTHER -> FALSE

\* ---------------------------------------------------------- key derivation
\* make_key hashes its input; the hash is modelled as injective, so a key is
\* the tuple of what went into it.  fl marks the "flush:" namespace.
Key(fl, ns, s, n) == [fl |-> fl, ns |-> ns, s |-> s, n |-> n]

\* CachingMixin._cache_key: "o:<class>:<pk>"
_cache_key(cls, pk) == Key(FALSE, "o", cls, pk)

\* CachingMixin._model_key: "m:<class>"
_model_key(cls) == Key(FALSE, "m", cls, 0)

\* CachingMixin.cache_key
cache_key(obj) == _cache_key("widget", obj.id)

\* CachingMixin._cache_keys: own key, then the key of every non-null FK.
_cache_keys(obj) ==
    << cache_key(obj) >> \o
    (IF obj.owner # None THEN << _cache_key("owner", obj.owner[1]) >> ELSE << >>)

\* CacheMachine.query_key: make_key('qs:' + query_string)
query_key(q) == Key(FALSE, "qs", q, 0)

\* the 'sql:<query_key>' entry written by CacheMachine.query_key
sql_key(q) == Key(FALSE, "sql", q, 0)

\* 'cols:<model_key>'
cols_key(cls) == Key(FALSE, "cols", cls, 0)

\* invalidation.flush_key: FLUSH + make_key(key) for a key or an object
flush_key(k) == [k EXCEPT !.fl = TRUE]

\* flush_key(query_string): the flush list of a queryset
query_flush(q) == Key(TRUE, "sqltext", q, 0)

Range(seq) == {seq[i] : i \in 1..Len(seq)}

\* The primary keys of a sequence of objects.
Ids(objs) == {objs[i].id : i \in 1..Len(objs)}

\* --------------------------------------------------------------- cache store
\* The store is a function from the keys present to their values.
cache_get(st, k) == IF k \in DOMAIN st THEN Some(st[k]) ELSE None

cache_set(st, k, v) == [x \in DOMAIN st \cup {k} |-> IF x = k THEN v ELSE st[x]]

\* cache.add that stores nothing.
cache_add_dropped(st, k, v) == st

\* cache.add that replaces the value already stored (cache.set).
cache_add_overwrite(st, k, v) == cache_set(st, k, v)

cache_add(st, k, v) == IF k \in DOMAIN st THEN st ELSE cache_set(st, k, v)

cache_delete_many(st, ks) == [x \in DOMAIN st \ ks |-> st[x]]

cache_delete(st, k) == cache_delete_many(st, {k})

\* ---------------------------------------------------------------- invalidator
\* get_flush_lists: the union of the lists stored under keys.
get_flush_lists(st, keys) == UNION {st[k] : k \in keys \cap DOMAIN st}

\* add_to_flush_list / register: merge mapping into the stored lists (union).
add_to_flush_list(st, mapping) ==
    [x \in DOMAIN st \cup DOMAIN mapping |->
        IF x \in DOMAIN mapping
        THEN (IF x \in DOMAIN st THEN st[x] ELSE {}) \cup mapping[x]
        ELSE st[x]]

\* find_flush_lists: follow flush lists to a fixed point.  keys are flush
\* keys already visited, flush is everything found to purge.
RECURSIVE find_flush_lists(_, _, _, _)
find_flush_lists(st, new_keys, keys, flush) ==
    LET to_flush == get_flush_lists(st, new_keys)
        next_keys == {k \in to_flush : k.fl}
    IN  IF next_keys \subseteq keys
        THEN [flush |-> flush \cup to_flush, keys |-> keys]
        ELSE find_flush_lists(st, next_keys \ keys, keys \cup next_keys,
                              flush \cup to_flush)

\* The cache keys an invalidation of keys purges (flush lists included).
purged_by(st, keys) ==
    LET fks == {flush_key(k) : k \in keys}
        r == find_flush_lists(st, fks, fks, fks)
    IN  r.flush \cup r.keys

\* invalidate_keys: purge every dependent of keys and the lists themselves.
invalidate_keys(st, keys) ==
    IF keys = {} THEN st ELSE cache_delete_many(st, purged_by(st, keys))

\* The dependency map of one cached query result: the queryset's flush list
\* holds the query key; each record's, each referenced foreign record's and
\* the model's flush list lead to the queryset's flush list.
dependency_map(objects, qkey, qflush) ==
    LET objs == Range(objects)
        fkeys(o) == {flush_key(k) : k \in Range(_cache_keys(o))}
        dom == {qflush, flush_key(_model_key("widget"))}
               \cup UNION {fkeys(o) : o \in objs}
    IN  [k \in dom |->
            (IF k = qflush THEN {qkey} ELSE {})
            \cup (IF k = flush_key(_model_key("widget")) THEN {qflush} ELSE {})
            \cup (IF \E o \in objs : k = flush_key(cache_key(o)) THEN {qflush} ELSE {})
            \cup {flush_key(cache_key(o)) :
                    o \in {x \in objs : k \in fkeys(x) /\ k # flush_key(cache_key(x))}}]

\* invalidator.cache_objects
inv_cache_objects(st, objects, qkey, qflush) ==
    add_to_flush_list(st, dependency_map(objects, qkey, qflush))

\* invalidator.clear: drop every flush list; cached values stay.
clear(st) == cache_delete_many(st, {k \in DOMAIN st : k.fl})

\* -------------------------------------------------------------- CachingQuerySet
\* CachingQuerySet.__init__: a fresh queryset carries timeout None.
CachingQuerySet(q) == [q |-> q, timeout |-> None]

\* CachingQuerySet._clone: a new object with the same query and timeout,
\* appended to the heap of queryset objects; the clone is the last object.
_clone(heap, i) == Append(heap, [q |-> heap[i].q, timeout |-> heap[i].timeout])

\* CachingQuerySet.cache: qs = self._clone(); qs.timeout = timeout; return qs
cache(heap, i, timeout) ==
    LET h == _clone(heap, i)
    IN  [h EXCEPT ![Len(h)].timeout = timeout]

\* CachingQuerySet.no_cache
no_cache(heap, i) == cache(heap, i, Some(NO_CACHE))

\* CachingQuerySet.get_constraints: the non-primary-key columns of the where
\* tree, keyed by 'cols:<model_key>'; no key at all when there is none.
get_constraints(q) ==
    LET names == {Where(q)[i].field : i \in 1..Len(Where(q))} \ {"id"}
    IN  IF names = {} THEN << >>
        ELSE [k \in {cols_key("widget")} |-> names]

\* ---------------------------------------------------------------- CachingManager
\* getattr(obj, col) for the columns a ConstraintSet can name.
Attr(obj, col) == IF col = "color" THEN Some(obj.color) ELSE obj.owner

\* CachingManager.invalidate
invalidate(st, objects) ==
    LET keys == UNION {Range(_cache_keys(objects[i])) : i \in 1..Len(objects)}
    IN  IF keys # {} THEN invalidate_keys(st, keys) ELSE st

\* invalidate_model that leaves the ConstraintSet in place.
invalidate_model_keep_cols(st) == invalidate_keys(st, {_model_key("widget")})

\* CachingManager.invalidate_model
invalidate_model(st) ==
    cache_delete(invalidate_keys(st, {_model_key("widget")}), cols_key("widget"))

\* pre_save that flushes the model of every existing record it is given,
\* without comparing the watched columns.
pre_save_undiffed(st, orig, instance, raw) ==
    IF raw \/ instance.id = 0 THEN st
    ELSE IF get_flush_lists(st, {cols_key("widget")}) = {} THEN st
    ELSE invalidate_model(st)

\* pre_save without the early return for raw (fixture) saves.
pre_save_ignores_raw(st, orig, instance, raw) ==
    IF instance.id = 0 THEN st
    ELSE LET flush_cols == get_flush_lists(st, {cols_key("widget")})
         IN  IF flush_cols = {} THEN st
             ELSE IF \E col \in flush_cols : Attr(orig, col) # Attr(instance, col)
                  THEN invalidate_model(st)
                  ELSE st

\* CachingManager.pre_save; orig is the persisted row, read past the cache.
pre_save(st, orig, instance, raw) ==
    IF raw THEN st
    ELSE IF instance.id = 0 THEN st
    ELSE LET flush_cols == get_flush_lists(st, {cols_key("widget")})
         IN  IF flush_cols = {} THEN st
             ELSE IF \E col \in flush_cols : Attr(orig, col) # Attr(instance, col)
                  THEN invalidate_model(st)
                  ELSE st

\* post_save without the clear() of a create.
post_save_no_clear(st, instance, created) == invalidate(st, << instance >>)

\* CachingManager.post_save
post_save(st, instance, created) ==
    LET st1 == invalidate(st, << instance >>)
    IN  IF created THEN clear(st1) ELSE st1

\* CachingManager.post_delete
post_delete(st, instance) == invalidate(st, << instance >>)

\* m2m_changed without the test of the action's first four characters.
m2m_changed_any_action(st, instance, action) == invalidate(st, << instance >>)

\* CachingManager.m2m_changed
m2m_changed(st, instance, action) ==
    IF SubSeq(action, 1, 4) # << "p", "o", "s", "t" >> THEN st
    ELSE invalidate(st, << instance >>)

\* ------------------------------------------------------------ memoization
\* _function_cache_key: make_key('f:%s' % key); key_ is the pair that
\* cached_with formats as '<f_key>:<obj_key>'.
_function_cache_key(key_) == Key(FALSE, "f", key_[1], key_[2].n)

\* cached(function, key_): fv is what function() returns.  cache.get gives
\* None for an absent key and for a stored None alike.
cached(st, fv, key_) ==
    LET key == _function_cache_key(key_)
        val == IF key \in DOMAIN st THEN st[key] ELSE None
    IN  IF val = None
        THEN [st |-> cache_set(st, key, fv), ret |-> fv, invoked |-> TRUE]
        ELSE [st |-> st, ret |-> val, invoked |-> FALSE]

\* cached_with(obj, f, f_key) for a model instance obj.
cached_with(st, obj, fv, f_key) ==
    LET obj_key == cache_key(obj)
        key == << f_key, obj_key >>
        st1 == add_to_flush_list(st,
                   [k \in {flush_key(obj_key)} |-> {_function_cache_key(key)}])
    IN  cached(st1, fv, key)

\* The key MethodWrapper.__call__ builds from the method and its arguments.
MethodKey(a) == IF a = 1 THEN "m:method:[1]" ELSE "m:method:[2]"

\* MethodWrapper.__call__ without the `key not in self.cache` test: every
\* call goes to cached_with and overwrites what the dict remembers.
MethodWrapper_call_no_local(st, loc, obj, fv, a) ==
    LET r == cached_with(st, obj, fv, MethodKey(a))
    IN  [st |-> r.st,
         loc |-> [x \in DOMAIN loc \cup {a} |-> IF x = a THEN r.ret ELSE loc[x]],
         ret |-> r.ret, invoked |-> r.invoked, consulted |-> TRUE]

\* MethodWrapper.__call__: loc is self.cache, a function from the argument
\* keys seen so far to the values remembered.
MethodWrapper_call(st, loc, obj, fv, a) ==
    IF a \in DOMAIN loc
    THEN [st |-> st, loc |-> loc, ret |-> loc[a], invoked |-> FALSE,
          consulted |-> FALSE]
    ELSE LET r == cached_with(st, obj, fv, MethodKey(a))
         IN  [st |-> r.st,
              loc |-> [x \in DOMAIN loc \cup {a} |-> IF x = a THEN r.ret ELSE loc[x]],
              ret |-> r.ret, invoked |-> r.invoked, consulted |-> TRUE]

\* ------------------------------------------------------------------ state
VARIABLES
    db,       \* the Widget table: primary key -> row [id, color, owner]
    nextId,   \* the table's autoincrement counter
    store,    \* the shared cache store (django.core.cache.cache)
    pc,       \* where each worker is in its current operation
    cur,      \* the queryset a worker is iterating: [q, timeout]
    rows,     \* rows the underlying iterator of a worker has still to produce
    out,      \* objects yielded to the worker's consumer so far (to_cache)
    inst,     \* the instance a worker is saving or deleting
    raw,      \* whether the worker's save is a raw (fixture) save
    created,  \* whether the worker's save inserted the row
    muts,     \* saves and deletes started so far
    watched,  \* history: the worker's save found a watched column whose
              \* persisted and about-to-be-saved values differ
    quiet,    \* history: no save, delete or hook step has run since the
              \* worker began the execution it is in
    last,     \* history: the worker's last finished execution or hook,
              \* forgotten as soon as a later save, delete or hook step runs
    qsets,    \* the queryset objects a worker holds, in order of creation
    prov,     \* history: how each of those objects was made, and from which
    fval,     \* what the memoized function f returns if it is called now
    local,    \* MethodWrapper.cache of each in-memory instance: args -> value
    memo,     \* history: the last memoized call and what has happened since
    inv,      \* the invalidate_keys call a worker is in the middle of
    epoch     \* history: the store when the invalidate calls now
              \* overlapping began, the objects they were given, whether
              \* one of them read a list the other had purged, and whether
              \* all of them are over

vars == << db, nextId, store, pc, cur, rows, out, inst, raw, created, muts,
           watched, quiet, last, qsets, prov, fval, local, memo, inv, epoch >>

\* The variables of the memoization helpers and of a stepwise invalidation.
memovars == << fval, local, memo >>
invvars == << inv, epoch >>

\* The in-memory instances of record 1 that carry a cached_method.
Instances == {1, 2}

\* The values f can return: Python None, or a number.
FVals == {None, Some(1), Some(2)}

\* The arguments the cached method is called with.
ArgVals == {1, 2}

\* No memoized call has been made.
NoMemo == [kind |-> "none", ret |-> None, invoked |-> FALSE, since |-> "none"]

\* No invalidate_keys call is under way.
NoEpoch == [base |-> << >>, calls |-> << >>, raced |-> FALSE, over |-> FALSE]

Row(id, color, owner) == [id |-> id, color |-> color, owner |-> owner]

NoInst == Row(0, "red", None)
NoQs == CachingQuerySet("pk1")

\* The underlying iterator (QuerySet.iterator): the rows matching q, by pk.
iter_function(d, q) ==
    LET Keep(i) == i \in DOMAIN d /\ Matches(q, d[i])
        sel == SelectSeq([i \in 1..(nextId - 1) |-> i], Keep)
    IN  IF EmptyResultSet(q) THEN << >>
        ELSE [j \in 1..Len(sel) |-> d[sel[j]]]

Init ==
    /\ db = [i \in {1} |-> Row(i, "red", Some(1))]
    /\ nextId = 2
    /\ store = [k \in {} |-> {}]
    /\ pc = [w \in Workers |-> "idle"]
    /\ cur = [w \in Workers |-> NoQs]
    /\ rows = [w \in Workers |-> << >>]
    /\ out = [w \in Workers |-> << >>]
    /\ inst = [w \in Workers |-> NoInst]
    /\ raw = [w \in Workers |-> FALSE]
    /\ created = [w \in Workers |-> FALSE]
    /\ muts = 0
    /\ watched = [w \in Workers |-> FALSE]
    /\ quiet = [w \in Workers |-> FALSE]
    /\ last = [w \in Workers |-> None]
    /\ qsets = [w \in Workers |-> << >>]
    /\ prov = [w \in Workers |-> << >>]
    /\ fval = Some(1)
    /\ local = [i \in Instances |-> << >>]
    /\ memo = NoMemo
    /\ inv = [w \in Workers |-> None]
    /\ epoch = NoEpoch

\* A finished execution, as the history remembers it.
Done(qs, objs, how) ==
    Some([q |-> qs.q, timeout |-> qs.timeout, out |-> objs, src |-> how])

\* A finished hook on an instance, as the history remembers it.
Hooked(instance, how) == Done(NoQs, << instance >>, how)

\* A save, delete or hook step of worker w: every execution under way has
\* now overlapped a mutation, and what finished before is forgotten.
Disturb(w, what) ==
    /\ quiet' = [x \in Workers |-> FALSE]
    /\ last' = [x \in Workers |-> IF x = w THEN what ELSE None]

\* ------------------------------------------------------- query execution
\* Iterate without the `self.timeout == NO_CACHE` test: every queryset goes
\* through the CacheMachine.
Iterate_always_cached(w, qs) ==
    LET st1 == add_to_flush_list(store, get_constraints(qs.q))
        st2 == cache_set(st1, sql_key(qs.q), qs.q)
        found == cache_get(st2, query_key(qs.q))
    IN  /\ pc[w] = "idle"
        /\ IF EmptyResultSet(qs.q)
           THEN /\ store' = st1
                /\ last' = [last EXCEPT ![w] = Done(qs, iter_function(db, qs.q), "direct")]
                /\ UNCHANGED << pc, cur, rows, out, quiet >>
           ELSE IF found # None
           THEN /\ store' = st2
                /\ last' = [last EXCEPT ![w] = Done(qs, found[1], "cache")]
                /\ UNCHANGED << pc, cur, rows, out, quiet >>
           ELSE /\ store' = st2
                /\ cur' = [cur EXCEPT ![w] = qs]
                /\ rows' = [rows EXCEPT ![w] = iter_function(db, qs.q)]
                /\ out' = [out EXCEPT ![w] = << >>]
                /\ pc' = [pc EXCEPT ![w] = "draining"]
                /\ quiet' = [quiet EXCEPT ![w] = TRUE]
                /\ last' = [last EXCEPT ![w] = None]
        /\ UNCHANGED << qsets, prov, memovars, invvars, db, nextId, inst, raw, created, muts, watched >>

\* CachingQuerySet.iterator followed by the first resumption of
\* CacheMachine.__iter__: register the constraints, then run directly
\* (NO_CACHE, or an empty query signature), replay a hit, or start draining.
Iterate(w, qs) ==
    LET st1 == add_to_flush_list(store, get_constraints(qs.q))
        st2 == cache_set(st1, sql_key(qs.q), qs.q)
        found == cache_get(st2, query_key(qs.q))
    IN  /\ pc[w] = "idle"
        /\ IF qs.timeout = Some(NO_CACHE) \/ EmptyResultSet(qs.q)
           THEN /\ store' = st1
                /\ last' = [last EXCEPT ![w] = Done(qs, iter_function(db, qs.q), "direct")]
                /\ UNCHANGED << pc, cur, rows, out, quiet >>
           ELSE IF found # None
           THEN /\ store' = st2
                /\ last' = [last EXCEPT ![w] = Done(qs, found[1], "cache")]
                /\ UNCHANGED << pc, cur, rows, out, quiet >>
           ELSE /\ store' = st2
                /\ cur' = [cur EXCEPT ![w] = qs]
                /\ rows' = [rows EXCEPT ![w] = iter_function(db, qs.q)]
                /\ out' = [out EXCEPT ![w] = << >>]
                /\ pc' = [pc EXCEPT ![w] = "draining"]
                /\ quiet' = [quiet EXCEPT ![w] = TRUE]
                /\ last' = [last EXCEPT ![w] = None]
        /\ UNCHANGED << qsets, prov, memovars, invvars, db, nextId, inst, raw, created, muts, watched >>

\* A worker executes a queryset with any query and timeout.
Start(w) ==
    \E q \in Queries, t \in Timeouts : Iterate(w, [q |-> q, timeout |-> t])

\* CacheMachine.__iter__, miss: iterator.next() produced an object; it is
\* buffered in to_cache and yielded.
Pull(w) ==
    /\ pc[w] = "draining"
    /\ rows[w] # << >>
    /\ out' = [out EXCEPT ![w] = Append(@, Head(rows[w]))]
    /\ rows' = [rows EXCEPT ![w] = Tail(@)]
    /\ UNCHANGED << qsets, prov, memovars, invvars, db, nextId, store, pc, cur, inst, raw, created, muts, watched, quiet, last >>

\* The worker's execution is over: its locals are dropped, and the history
\* keeps what it yielded if no mutation step overlapped it.
Finish(w, how) ==
    /\ pc' = [pc EXCEPT ![w] = "idle"]
    /\ cur' = [cur EXCEPT ![w] = NoQs]
    /\ rows' = [rows EXCEPT ![w] = << >>]
    /\ out' = [out EXCEPT ![w] = << >>]
    /\ quiet' = [quiet EXCEPT ![w] = FALSE]
    /\ last' = [last EXCEPT ![w] = IF quiet[w] THEN Done(cur[w], out[w], how) ELSE None]

\* Exhaust that caches the buffer whenever the generator is resumed, also
\* before the underlying iterator is exhausted.
Exhaust_early(w) ==
    /\ pc[w] = "draining"
    /\ store' = cache_add(cache_set(store, sql_key(cur[w].q), cur[w].q),
                          query_key(cur[w].q), out[w])
    /\ pc' = [pc EXCEPT ![w] = "registering"]
    /\ UNCHANGED << qsets, prov, memovars, invvars, db, nextId, cur, rows, out, inst, raw, created, muts,
                    watched, quiet, last >>

\* Exhaust without the `if to_cache` test: an empty buffer is cached too.
Exhaust_unconditional(w) ==
    /\ pc[w] = "draining"
    /\ rows[w] = << >>
    /\ store' = cache_add(cache_set(store, sql_key(cur[w].q), cur[w].q),
                          query_key(cur[w].q), out[w])
    /\ pc' = [pc EXCEPT ![w] = "registering"]
    /\ UNCHANGED << qsets, prov, memovars, invvars, db, nextId, cur, rows, out, inst, raw, created, muts,
                    watched, quiet, last >>

\* CacheMachine.__iter__, miss: iterator.next() raised StopIteration;
\* CacheMachine.cache_objects up to and including cache.add.
Exhaust(w) ==
    LET q == cur[w].q
        st1 == cache_set(store, sql_key(q), q)
    IN  /\ pc[w] = "draining"
        /\ rows[w] = << >>
        /\ IF out[w] # << >>
           THEN /\ store' = cache_add(st1, query_key(q), out[w])
                /\ pc' = [pc EXCEPT ![w] = "registering"]
                /\ UNCHANGED << cur, rows, out, quiet, last >>
           ELSE /\ store' = store
                /\ Finish(w, "db")
        /\ UNCHANGED << qsets, prov, memovars, invvars, db, nextId, inst, raw, created, muts, watched >>

\* CacheMachine.cache_objects, last line: invalidator.cache_objects.
Register(w) ==
    /\ pc[w] = "registering"
    /\ store' = inv_cache_objects(store, out[w], query_key(cur[w].q),
                                  query_flush(cur[w].q))
    /\ Finish(w, "db")
    /\ UNCHANGED << qsets, prov, memovars, invvars, db, nextId, inst, raw, created, muts, watched >>

\* The consumer stops iterating part-way; the generator never reaches
\* StopIteration and nothing is cached.
Abandon(w) ==
    /\ pc[w] = "draining"
    /\ rows[w] # << >>
    /\ Finish(w, "partial")
    /\ UNCHANGED << qsets, prov, memovars, invvars, db, nextId, store, inst, raw, created, muts, watched >>

\* ------------------------------------------------------------ mutations
\* Model.save() up to the pre_save signal.  The instance is a new one
\* (id 0) or carries the pk of a persisted row, with any field values.
PreSave(w) ==
    \E id \in {0} \cup DOMAIN db, c \in Colors, o \in OwnerVals, r \in BOOLEAN :
        /\ pc[w] = "idle"
        /\ muts < MaxMutations
        /\ muts' = muts + 1
        /\ store' = pre_save(store, IF id = 0 THEN NoInst ELSE db[id],
                             Row(id, c, o), r)
        /\ inst' = [inst EXCEPT ![w] = Row(id, c, o)]
        /\ raw' = [raw EXCEPT ![w] = r]
        /\ watched' = [watched EXCEPT ![w] =
               id # 0 /\ \E col \in get_flush_lists(store, {cols_key("widget")}) :
                             Attr(db[id], col) # Attr(Row(id, c, o), col)]
        /\ pc' = [pc EXCEPT ![w] = "saving"]
        /\ Disturb(w, None)
        /\ UNCHANGED << qsets, prov, memovars, invvars, db, nextId, cur, rows, out, created >>

\* Model.save_base: INSERT for a new instance (or one whose row is gone),
\* UPDATE otherwise.
Write(w) ==
    LET new == inst[w].id = 0
        row == IF new THEN [inst[w] EXCEPT !.id = nextId] ELSE inst[w]
    IN  /\ pc[w] = "saving"
        /\ db' = [i \in DOMAIN db \cup {row.id} |-> IF i = row.id THEN row ELSE db[i]]
        /\ nextId' = IF new THEN nextId + 1 ELSE nextId
        /\ inst' = [inst EXCEPT ![w] = row]
        /\ created' = [created EXCEPT ![w] = row.id \notin DOMAIN db]
        /\ pc' = [pc EXCEPT ![w] = "saved"]
        /\ Disturb(w, None)
        /\ UNCHANGED << qsets, prov, memovars, invvars, store, cur, rows, out, raw, muts, watched >>

\* Model.save() after the write: the post_save signal.
PostSave(w) ==
    /\ pc[w] = "saved"
    /\ store' = post_save(store, inst[w], created[w])
    /\ pc' = [pc EXCEPT ![w] = "idle"]
    /\ inst' = [inst EXCEPT ![w] = NoInst]
    /\ raw' = [raw EXCEPT ![w] = FALSE]
    /\ watched' = [watched EXCEPT ![w] = FALSE]
    /\ created' = [created EXCEPT ![w] = FALSE]
    /\ Disturb(w, Hooked(inst[w],
                          IF created[w] THEN "post_save_created"
                          ELSE IF raw[w] THEN "post_save_raw"
                          ELSE IF watched[w] THEN "post_save_watched"
                          ELSE "post_save_unwatched"))
    /\ UNCHANGED << qsets, prov, memovars, invvars, db, nextId, cur, rows, out, muts >>

\* Model.delete() up to and including the DELETE of a persisted row.
Delete(w) ==
    \E id \in DOMAIN db :
        /\ pc[w] = "idle"
        /\ muts < MaxMutations
        /\ muts' = muts + 1
        /\ db' = [i \in DOMAIN db \ {id} |-> db[i]]
        /\ inst' = [inst EXCEPT ![w] = db[id]]
        /\ pc' = [pc EXCEPT ![w] = "deleted"]
        /\ Disturb(w, None)
        /\ UNCHANGED << qsets, prov, memovars, invvars, nextId, store, cur, rows, out, raw, created, watched >>

\* Model.delete() after the DELETE: the post_delete signal.
PostDelete(w) ==
    /\ pc[w] = "deleted"
    /\ store' = post_delete(store, inst[w])
    /\ pc' = [pc EXCEPT ![w] = "idle"]
    /\ inst' = [inst EXCEPT ![w] = NoInst]
    /\ Disturb(w, Hooked(inst[w], "post_delete"))
    /\ UNCHANGED << qsets, prov, memovars, invvars, db, nextId, cur, rows, out, raw, created, muts, watched >>

\* The m2m_changed signal for a persisted record.
M2mActions == { << "p", "r", "e", "_", "a", "d", "d" >>,
                << "p", "o", "s", "t", "_", "a", "d", "d" >> }

\* The name of an action, as the history remembers it.
M2mName(action) == IF Head(Tail(action)) = "r" THEN "pre_add" ELSE "post_add"

M2mChanged(w) ==
    \E id \in DOMAIN db, action \in M2mActions :
        /\ pc[w] = "idle"
        /\ store' = m2m_changed(store, db[id], action)
        /\ Disturb(w, Hooked(db[id], M2mName(action)))
        /\ UNCHANGED << qsets, prov, memovars, invvars, db, nextId, pc, cur, rows, out, inst, raw, created, muts, watched >>

\* An explicit call of Widget.objects.invalidate_model().
InvalidateModel(w) ==
    /\ pc[w] = "idle"
    /\ store' = invalidate_model(store)
    /\ Disturb(w, Done(NoQs, << >>, "invalidate_model"))
    /\ UNCHANGED << qsets, prov, memovars, invvars, db, nextId, pc, cur, rows, out, inst, raw, created, muts, watched >>

\* Spec: one worker runs its operations one after another.
Next ==
    \E w \in {1} :
        \/ Start(w)
        \/ Pull(w)
        \/ Exhaust(w)
        \/ Register(w)
        \/ Abandon(w)
        \/ PreSave(w)
        \/ Write(w)
        \/ PostSave(w)
        \/ Delete(w)
        \/ PostDelete(w)
        \/ M2mChanged(w)
        \/ InvalidateModel(w)

Spec == Init /\ [][Next]_vars

\* SpecRace: all workers interleave, each executing the red queryset with
\* the default timeout and saving or deleting records.
RaceStart(w) == Iterate(w, CachingQuerySet("red"))

NextRace ==
    \E w \in Workers :
        \/ RaceStart(w)
        \/ Pull(w)
        \/ Exhaust(w)
        \/ Register(w)
        \/ Abandon(w)
        \/ PreSave(w)
        \/ Write(w)
        \/ PostSave(w)
        \/ Delete(w)
        \/ PostDelete(w)

SpecRace == Init /\ [][NextRace]_vars

\* ------------------------------------------------------ queryset objects
\* Worker w builds a queryset object: its heap becomes h, and the history
\* records the call that made the new (last) object and the object it was
\* called on.
Build(w, h, how, from) ==
    /\ pc[w] = "idle"
    /\ Len(qsets[w]) < MaxQuerySets
    /\ qsets' = [qsets EXCEPT ![w] = h]
    /\ prov' = [prov EXCEPT ![w] = Append(@, [op |-> how, from |-> from])]
    /\ UNCHANGED << db, nextId, store, pc, cur, rows, out, inst, raw, created,
                    muts, watched, quiet, last, memovars, invvars >>

\* CachingManager.get_query_set, filtered: Widget.objects.filter(...)
get_query_set(w) ==
    \E q \in {"pk1", "red"} :
        Build(w, Append(qsets[w], CachingQuerySet(q)), "get_query_set", 0)

\* qs.all(): a call of _clone on an object the worker holds
CloneQS(w) ==
    \E i \in 1..Len(qsets[w]) : Build(w, _clone(qsets[w], i), "_clone", i)

\* qs.cache(timeout)
CacheQS(w) ==
    \E i \in 1..Len(qsets[w]), t \in Timeouts :
        Build(w, cache(qsets[w], i, t), "cache", i)

\* qs.no_cache()
NoCacheQS(w) ==
    \E i \in 1..Len(qsets[w]) : Build(w, no_cache(qsets[w], i), "no_cache", i)

\* The worker executes one of the queryset objects it holds.
StartFrom(w) ==
    \E i \in 1..Len(qsets[w]) : Iterate(w, qsets[w][i])

\* SpecQS: worker 1 builds queryset objects from one another and executes
\* them, while worker 2 deletes records.
NextQS ==
    \/ \E w \in {1} :
        \/ get_query_set(w)
        \/ CloneQS(w)
        \/ CacheQS(w)
        \/ NoCacheQS(w)
        \/ StartFrom(w)
        \/ Pull(w)
        \/ Exhaust(w)
        \/ Register(w)
    \/ \E w \in {2} :
        \/ Delete(w)
        \/ PostDelete(w)

SpecQS == Init /\ [][NextQS]_vars

\* ---------------------------------------------------------- fetch by id
\* invalidation.byid: the key of the per-record entry of an object key.
byid(k) == [k EXCEPT !.ns = "byid"]

\* CachingQuerySet.fetch_missed: the queryset narrowed to pk__in=pks and
\* run with no_cache(); its iterator() registers the constraints.
fetch_missed(st, d, q, pks) ==
    [st |-> add_to_flush_list(st, get_constraints(q)),
     others |-> SelectSeq(iter_function(d, q), LAMBDA o : o.id \in pks)]

\* fetch_by_id that does not put the fetched objects back in the cache.
fetch_by_id_not_stored(st, d, q) ==
    [st |-> fetch_missed(st, d, q, Ids(iter_function(d, q))).st,
     out |-> iter_function(d, q),
     missed |-> {pk \in Ids(iter_function(d, q)) :
                    byid(_cache_key("widget", pk)) \notin DOMAIN st}]

\* CachingQuerySet.fetch_by_id: the pks of the query, the objects found
\* under their byid keys, the others fetched and stored, all yielded in
\* the order of the pks.
fetch_by_id(st, d, q) ==
    LET vals == iter_function(d, q)
        pks == [j \in 1..Len(vals) |-> vals[j].id]
        key(pk) == byid(_cache_key("widget", pk))
        hit == {pk \in Range(pks) : key(pk) \in DOMAIN st}
        missed == Range(pks) \ hit
        r == IF missed # {} THEN fetch_missed(st, d, q, missed)
             ELSE [st |-> st, others |-> << >>]
        new == r.others
        st1 == [k \in DOMAIN r.st \cup {key(o.id) : o \in Range(new)} |->
                   IF \E o \in Range(new) : k = key(o.id)
                   THEN CHOOSE o \in Range(new) : k = key(o.id)
                   ELSE r.st[k]]
        object(pk) == IF pk \in hit THEN st[key(pk)]
                      ELSE CHOOSE o \in Range(new) : o.id = pk
    IN  [st |-> st1,
         out |-> [j \in 1..Len(pks) |-> object(pks[j])],
         missed |-> missed]

\* A worker runs qs.fetch_by_id() to the end for the queryset q.  The
\* history tells a run from the run before it by the parity nth.
FetchByIdOf(w, q) ==
    LET r == fetch_by_id(store, db, q)
        again == last[w] # None /\ last[w][1].src = "fetch_by_id"
    IN  /\ pc[w] = "idle"
        /\ store' = r.st
        /\ last' = [last EXCEPT ![w] =
               Some([q |-> q, timeout |-> None, out |-> r.out,
                     src |-> "fetch_by_id", missed |-> r.missed,
                     nth |-> IF again THEN 1 - last[w][1].nth ELSE 0])]
        /\ UNCHANGED << qsets, prov, memovars, invvars, db, nextId, pc, cur, rows,
                        out, inst, raw, created, muts, watched, quiet >>

FetchById(w) == \E q \in {"pk1", "red"} : FetchByIdOf(w, q)

\* SpecFetch: one worker runs fetch_by_id and saves and deletes records.
NextFetch ==
    \E w \in {1} :
        \/ FetchById(w)
        \/ PreSave(w)
        \/ Write(w)
        \/ PostSave(w)
        \/ Delete(w)
        \/ PostDelete(w)

SpecFetch == Init /\ [][NextFetch]_vars

\* ------------------------------------------------------ memoized calls
\* What the memoization actions leave alone.
MemoFrame ==
    UNCHANGED << db, nextId, pc, cur, rows, out, inst, raw, created, muts,
                 watched, quiet, last, qsets, prov, invvars >>

\* cached_with(owner, f, 'score') for the persisted record 1.
CachedWith(w) ==
    LET r == cached_with(store, db[1], fval, "score")
    IN  /\ pc[w] = "idle"
        /\ store' = r.st
        /\ memo' = [kind |-> "cached_with", ret |-> r.ret,
                    invoked |-> r.invoked, since |-> "call"]
        /\ UNCHANGED << fval, local >>
        /\ MemoFrame

\* A call owner.method(a) on the in-memory instance i of record 1.
CallMethod(w) ==
    \E i \in Instances, a \in ArgVals :
        LET r == MethodWrapper_call(store, local[i], db[1], fval, a)
        IN  /\ pc[w] = "idle"
            /\ store' = r.st
            /\ local' = [local EXCEPT ![i] = r.loc]
            /\ memo' = [kind |-> "method", ret |-> r.ret, invoked |-> r.invoked,
                        since |-> "call", inst |-> i, arg |-> a,
                        consulted |-> r.consulted]
            /\ UNCHANGED fval
            /\ MemoFrame

\* The instance i is dropped and record 1 is loaded afresh in its place.
Reload(w) ==
    \E i \in Instances :
        /\ pc[w] = "idle"
        /\ local[i] # << >>
        /\ local' = [local EXCEPT ![i] = << >>]
        /\ memo' = [memo EXCEPT !.since = "reload"]
        /\ UNCHANGED << store, fval >>
        /\ MemoFrame

\* The world changes: f would now return another value.
ChangeF ==
    \E v \in FVals \ {fval} :
        /\ fval' = v
        /\ UNCHANGED << store, local, memo >>
        /\ MemoFrame

\* Widget.objects.invalidate(owner) for the persisted record 1.
InvalidateOwner(w) ==
    /\ pc[w] = "idle"
    /\ store' = invalidate(store, << db[1] >>)
    /\ memo' = IF memo.kind = "none" THEN memo
               ELSE [memo EXCEPT !.since = "invalidated"]
    /\ UNCHANGED << fval, local >>
    /\ MemoFrame

\* SpecMemo: one worker memoizes a function of record 1 with cached_with
\* and executes querysets, while the function's value changes and the
\* record is invalidated.
NextMemo ==
    \/ \E w \in {1} :
        \/ CachedWith(w)
        \/ InvalidateOwner(w)
        \/ Start(w)
        \/ Pull(w)
        \/ Exhaust(w)
        \/ Register(w)
    \/ ChangeF

SpecMemo == Init /\ [][NextMemo]_vars

\* SpecMethod: one worker calls a cached_method on two in-memory instances
\* of record 1, while the function's value changes, the record is
\* invalidated and instances are reloaded.
NextMethod ==
    \/ \E w \in {1} :
        \/ CallMethod(w)
        \/ Reload(w)
        \/ InvalidateOwner(w)
    \/ ChangeF

SpecMethod == Init /\ [][NextMethod]_vars

\* ------------------------------------------------ overlapping invalidation
\* No invalidate call is under way.
Quiescent == \A w \in Workers : inv[w] = None

\* invalidate that passes on the object's own key only, without the keys
\* of the records its foreign keys reference.
InvBegin_own_key(w) ==
    \E id \in DOMAIN db :
        LET fks == {flush_key(cache_key(db[id]))}
        IN  /\ pc[w] = "idle"
            /\ inv[w] = None
            /\ inv' = [inv EXCEPT ![w] =
                   Some([new_keys |-> fks, keys |-> fks, flush |-> fks,
                         found |-> FALSE,
                         absent |-> fks \cap DOMAIN store = {}])]
            /\ epoch' = IF Quiescent
                        THEN [base |-> store, calls |-> << << db[id] >> >>,
                              raced |-> FALSE, over |-> FALSE]
                        ELSE [epoch EXCEPT !.calls = Append(@, << db[id] >>)]
            /\ UNCHANGED << qsets, prov, memovars, db, nextId, store, pc, cur,
                            rows, out, inst, raw, created, muts, watched,
                            quiet, last >>

\* CachingManager.invalidate(obj) for a persisted record, up to the entry
\* of invalidator.invalidate_keys: the keys are the object's _cache_keys,
\* and find_flush_lists starts from their flush keys.
InvBegin(w) ==
    \E id \in DOMAIN db :
        LET fks == {flush_key(k) : k \in Range(_cache_keys(db[id]))}
        IN  /\ pc[w] = "idle"
            /\ inv[w] = None
            /\ inv' = [inv EXCEPT ![w] =
                   Some([new_keys |-> fks, keys |-> fks, flush |-> fks,
                         found |-> FALSE,
                         absent |-> fks \cap DOMAIN store = {}])]
            /\ epoch' = IF Quiescent
                        THEN [base |-> store, calls |-> << << db[id] >> >>,
                              raced |-> FALSE, over |-> FALSE]
                        ELSE [epoch EXCEPT !.calls = Append(@, << db[id] >>)]
            /\ UNCHANGED << qsets, prov, memovars, db, nextId, store, pc, cur,
                            rows, out, inst, raw, created, muts, watched,
                            quiet, last >>

\* find_flush_lists, one turn of its loop: one read of the lists stored
\* under new_keys.
InvRound(w) ==
    /\ inv[w] # None
    /\ ~inv[w][1].found
    /\ LET c == inv[w][1]
           to_flush == get_flush_lists(store, c.new_keys)
           next_keys == {k \in to_flush : k.fl}
       IN  /\ inv' = [inv EXCEPT ![w] =
                  IF next_keys \subseteq c.keys
                  THEN Some([c EXCEPT !.flush = @ \cup to_flush,
                                      !.found = TRUE])
                  ELSE Some([c EXCEPT !.new_keys = next_keys \ c.keys,
                                      !.keys = @ \cup next_keys,
                                      !.flush = @ \cup to_flush])]
           /\ epoch' = [epoch EXCEPT !.raced =
                  @ \/ to_flush # get_flush_lists(epoch.base, c.new_keys)]
    /\ UNCHANGED << qsets, prov, memovars, db, nextId, store, pc, cur, rows,
                    out, inst, raw, created, muts, watched, quiet, last >>

\* invalidate_keys after find_flush_lists: delete what was found, and the
\* flush lists visited.
InvPurge(w) ==
    /\ inv[w] # None
    /\ inv[w][1].found
    /\ store' = cache_delete_many(store, inv[w][1].flush \cup inv[w][1].keys)
    /\ inv' = [inv EXCEPT ![w] = None]
    /\ epoch' = [epoch EXCEPT !.over = \A x \in Workers \ {w} : inv[x] = None]
    /\ UNCHANGED << qsets, prov, memovars, db, nextId, pc, cur, rows, out,
                    inst, raw, created, muts, watched, quiet, last >>

\* Model.save() of a new instance, loaded normally.
Create(w) == PreSave(w) /\ inst'[w].id = 0 /\ ~raw'[w]

\* A worker executes a queryset that carries the default timeout.
StartDefault(w) == \E q \in Queries : Iterate(w, CachingQuerySet(q))

\* SpecInv: worker 1 creates records and executes querysets; then the two
\* workers call invalidate, each call split into the reads of
\* find_flush_lists and the final delete.  Each worker is one mutation
\* event: a call begins on a quiet store or while the other worker's call
\* is under way, and nothing else runs from the first call on.
NextInv ==
    \/ \E w \in {1} :
        /\ epoch = NoEpoch
        /\ \/ Create(w)
           \/ Write(w)
           \/ PostSave(w)
           \/ StartDefault(w)
           \/ Pull(w)
           \/ Exhaust(w)
           \/ Register(w)
    \/ \E w \in Workers :
        \/ /\ epoch = NoEpoch \/ (~Quiescent /\ Len(epoch.calls) < Cardinality(Workers))
           /\ \A x \in Workers : pc[x] = "idle"
           /\ InvBegin(w)
        \/ InvRound(w)
        \/ InvPurge(w)

SpecInv == Init /\ [][NextInv]_vars

\* ============================================================== properties
Cached(st, q) == query_key(q) \in DOMAIN st

\* Worker w takes the step that runs the named hook or handler.
PostSaveStep(w) == pc[w] = "saved" /\ pc'[w] = "idle"
PostDeleteStep(w) == pc[w] = "deleted" /\ pc'[w] = "idle"
PreSaveStep(w) == pc[w] = "idle" /\ pc'[w] = "saving"

\* Worker w re-runs the queryset of its last finished execution.
Rerun(w) == Iterate(w, [q |-> last[w][1].q, timeout |-> last[w][1].timeout])

\* C1 (as claimed): once the hooks of a delete of R, or of an update of R
\* that changed a watched column, have run, no cached query result that
\* read R is left in the store, so the next execution of the query misses.
C1_InvalidationComplete ==
    [][\A w \in Workers :
        (\/ PostDeleteStep(w)
         \/ PostSaveStep(w) /\ ~created[w] /\ ~raw[w] /\ watched[w])
        => \A q \in Queries :
              Cached(store', q) => inst[w].id \notin Ids(store'[query_key(q)])]_vars

\* C2 (as claimed): a finished cache-miss execution of Q, re-run with no
\* mutation in between, is served from the cache with the same sequence.
C2_ReadThroughAny ==
    [][\A w \in Workers :
        (last[w] # None /\ last[w][1].src = "db" /\ Rerun(w))
        => /\ pc'[w] = "idle"
           /\ last'[w] = Done(last[w][1], last[w][1].out, "cache")]_vars

\* C2 (amended): a finished cache-miss execution of Q that yielded at least
\* one record, re-run with no mutation in between, is served from the cache
\* (the underlying iterator is not called) with the same sequence.
C2_ReadThrough ==
    [][\A w \in Workers :
        (last[w] # None /\ last[w][1].src = "db" /\ last[w][1].out # << >>
            /\ Rerun(w))
        => /\ pc'[w] = "idle"
           /\ last'[w] = Done(last[w][1], last[w][1].out, "cache")]_vars

\* C2 witness: a re-run has replayed the two records the miss had cached.
C2_Witness ==
    \E w \in Workers :
        /\ last[w] # None
        /\ last[w][1].src = "cache"
        /\ Len(last[w][1].out) = 2
        /\ last[w][1].out = iter_function(db, last[w][1].q)

\* C5 (as claimed): when the after-create hook has run, no query result
\* cached before the create is left in the store.
C5_CreateFlushesModel ==
    [][\A w \in Workers :
        (PostSaveStep(w) /\ created[w])
        => \A q \in Queries : ~Cached(store', q)]_vars

\* C10 (as claimed): executing a query statically known to match nothing
\* yields no records and leaves the cache store as it was.
C10_EmptySignatureNoIO ==
    [][\A w \in Workers : \A q \in Queries, t \in Timeouts :
        (EmptyResultSet(q) /\ Iterate(w, [q |-> q, timeout |-> t]))
        => /\ last'[w][1].out = << >>
           /\ store' = store]_vars

\* What the flush lists of the given record keys lead to, by following the
\* stored lists from the keys' own flush lists.
RECURSIVE Reach(_, _, _)
Reach(st, S, n) ==
    IF n = 0 THEN S
    ELSE Reach(st, S \cup UNION {st[k] : k \in {x \in S \cap DOMAIN st : x.fl}},
               n - 1)

Dependents(st, keys) ==
    Reach(st, {flush_key(k) : k \in keys}, Cardinality(DOMAIN st) + 1)

\* The keys of the store that are kept, with their values, by a step.
Kept(k) == k \in DOMAIN store' /\ store'[k] = store[k]

\* C3 (as claimed): a save of an existing record that changes no watched
\* column evicts no cached query result, in pre_save and in post_save.
C3_UnwatchedSaveEvictsNothing ==
    [][\A w \in Workers :
        (\/ PreSaveStep(w) /\ inst'[w].id # 0 /\ ~watched'[w]
         \/ PostSaveStep(w) /\ ~created[w] /\ ~watched[w])
        => \A q \in Queries : Cached(store, q) => Cached(store', q)]_vars

\* C3 (amended): a save of an existing record that changes no watched
\* column does not flush the model: pre_save leaves the store unchanged,
\* and post_save evicts only what the flush lists of the record's own key
\* and of the foreign record it references lead to; every other entry (the
\* ConstraintSet, the model's flush list, the other query results) is kept.
C3_UnwatchedSavePrecision ==
    [][\A w \in Workers :
        /\ (PreSaveStep(w) /\ inst'[w].id # 0 /\ ~watched'[w]) => store' = store
        /\ (PostSaveStep(w) /\ ~created[w] /\ ~watched[w])
           => \A k \in DOMAIN store :
                 k \notin Dependents(store, Range(_cache_keys(inst[w]))) => Kept(k)]_vars

\* C3 witness: an update that changed no watched column has finished, and
\* a query result, the ConstraintSet and the model's flush list are there.
C3_Witness ==
    \E w \in Workers :
        /\ last[w] # None
        /\ last[w][1].src = "post_save_unwatched"
        /\ \E q \in Queries : Cached(store, q)
        /\ get_flush_lists(store, {cols_key("widget")}) = {"color"}
        /\ flush_key(_model_key("widget")) \in DOMAIN store

\* A query result is registered against the model: the model's flush list
\* leads to the queryset's flush list, which holds the query key.
Registered(st, q) ==
    /\ Cached(st, q)
    /\ query_flush(q) \in get_flush_lists(st, {flush_key(_model_key("widget"))})
    /\ query_key(q) \in get_flush_lists(st, {query_flush(q)})

\* C4: when pre_save finds that a watched column of an existing record
\* differs, every query result registered against the model is evicted,
\* whether or not it held the record, and the model's flush list and its
\* ConstraintSet are gone, so a re-run of such a query misses.
C4_WatchedUpdateFlushesModel ==
    [][\A w \in Workers :
        (PreSaveStep(w) /\ ~raw'[w] /\ watched'[w])
        => /\ cols_key("widget") \notin DOMAIN store'
           /\ flush_key(_model_key("widget")) \notin DOMAIN store'
           /\ \A q \in Queries : Registered(store, q) => ~Cached(store', q)]_vars

\* C4 witness: pre_save has just flushed the model for a watched change of
\* a record no cached result held; no query result is left, and the stale
\* flush list of another record still names the red queryset.
C4_Witness ==
    \E w \in Workers :
        /\ pc[w] = "saving" /\ watched[w] /\ ~raw[w]
        /\ \A q \in Queries : ~Cached(store, q)
        /\ cols_key("widget") \notin DOMAIN store
        /\ flush_key(cache_key(inst[w])) \notin DOMAIN store
        /\ \E i \in DOMAIN db :
              /\ i # inst[w].id
              /\ query_flush("red") \in get_flush_lists(store, {flush_key(cache_key(db[i]))})

\* C6 (as claimed): the after-create hook evicts no query result and
\* leaves no flush list, so a later invalidate_model purges nothing but
\* the ConstraintSet.
C6_CreateEvictsNothing ==
    [][\A w \in Workers :
        (PostSaveStep(w) /\ created[w])
        => /\ \A q \in Queries : Cached(store, q) => Cached(store', q)
           /\ \A k \in DOMAIN store' : ~k.fl
           /\ invalidate_model(store') = cache_delete(store', cols_key("widget"))]_vars

\* C6 (amended): the after-create hook evicts no cache entry other than
\* those the flush lists of the new record's own key and of the foreign
\* record it references lead to, and it leaves no flush list, so a later
\* invalidate_model purges nothing but the ConstraintSet.
C6_CreateSafetyValve ==
    [][\A w \in Workers :
        (PostSaveStep(w) /\ created[w])
        => /\ \A k \in DOMAIN store :
                 (~k.fl /\ k \notin Dependents(store, Range(_cache_keys(inst[w]))))
                 => Kept(k)
           /\ \A k \in DOMAIN store' : ~k.fl
           /\ invalidate_model(store') = cache_delete(store', cols_key("widget"))]_vars

\* C6 witness: a create has finished; a query result cached before it is
\* still there, and no flush list is.
C6_Witness ==
    \E w \in Workers :
        /\ last[w] # None
        /\ last[w][1].src = "post_save_created"
        /\ \E q \in Queries : Cached(store, q)
        /\ \A k \in DOMAIN store : ~k.fl

\* C7: the value written under a query key is the whole sequence of one
\* execution: out \o rows of a draining worker stays the sequence its
\* iterator was started with, and a query key is written only from the out
\* of a worker whose rows are exhausted.
C7_NoPartialResults ==
    [][/\ \A w \in Workers :
            /\ (pc[w] = "idle" /\ pc'[w] = "draining")
               => out'[w] \o rows'[w] = iter_function(db, cur'[w].q)
            /\ (pc[w] = "draining" /\ pc'[w] = "draining")
               => out'[w] \o rows'[w] = out[w] \o rows[w]
       /\ \A q \in Queries :
            (Cached(store', q) /\ (Cached(store, q) => ~Kept(query_key(q))))
            => \E w \in Workers :
                  /\ pc[w] = "draining" /\ cur[w].q = q
                  /\ rows[w] = << >> /\ out[w] # << >>
                  /\ store'[query_key(q)] = out[w]]_vars

\* C7 witness: one worker stopped after the first of two records and
\* cached nothing; the stored result is the whole two-record sequence that
\* another execution drained.
C7_Witness ==
    \E w \in Workers : \E q \in Queries :
        /\ last[w] # None
        /\ last[w][1].src = "partial" /\ last[w][1].q = q
        /\ Len(last[w][1].out) = 1
        /\ Cached(store, q)
        /\ Len(store[query_key(q)]) = 2
        /\ store[query_key(q)] = iter_function(db, q)

\* C8: a cache-miss execution whose iterator yields no rows writes nothing
\* at exhaustion; it leaves no entry under the query key and no flush list
\* of the queryset, and its re-run misses and calls the iterator again.
C8_EmptyNotCached ==
    [][\A w \in Workers :
        /\ (pc[w] = "draining" /\ out[w] \o rows[w] = << >> /\ pc'[w] # "draining")
           => /\ store' = store
              /\ pc'[w] = "idle"
              /\ ~Cached(store', cur[w].q)
              /\ query_flush(cur[w].q) \notin DOMAIN store'
        /\ (last[w] # None /\ last[w][1].src = "db" /\ last[w][1].out = << >>
                /\ Rerun(w))
           => /\ pc'[w] = "draining"
              /\ rows'[w] = iter_function(db, last[w][1].q)]_vars

\* C8 witness: the red queryset was executed on a table with rows but no
\* red one; it finished as a miss with no records, and nothing is cached.
C8_Witness ==
    \E w \in Workers :
        /\ last[w] = Done(CachingQuerySet("red"), << >>, "db")
        /\ DOMAIN db # {}
        /\ ~Cached(store, "red")
        /\ query_flush("red") \notin DOMAIN store

\* C9: executing a queryset whose timeout is NO_CACHE runs the underlying
\* iterator directly: it yields what the table holds whatever is stored
\* under its query key, and no query-result entry is added, changed or
\* removed.  cache(timeout), no_cache() and _clone add a new queryset object
\* and leave every existing one as it was; a _clone carries the query and
\* the timeout of the object it was called on (so the clone of a NO_CACHE
\* queryset is NO_CACHE), and no_cache() gives a NO_CACHE object.
C9_Bypass ==
    [][\A w \in Workers :
        /\ \A i \in 1..Len(qsets[w]) :
              (qsets[w][i].timeout = Some(NO_CACHE) /\ Iterate(w, qsets[w][i]))
              => /\ pc'[w] = "idle"
                 /\ last'[w] = Done(qsets[w][i],
                                    iter_function(db, qsets[w][i].q), "direct")
                 /\ \A k \in DOMAIN store \cup DOMAIN store' :
                       k.ns = "qs" => (k \in DOMAIN store /\ Kept(k))
        /\ qsets'[w] # qsets[w]
           => LET n == Len(qsets[w])
                  new == qsets'[w][n + 1]
                  how == prov'[w][n + 1]
              IN  /\ Len(qsets'[w]) = n + 1
                  /\ \A j \in 1..n : qsets'[w][j] = qsets[w][j]
                  /\ how.op = "_clone" => new = qsets[w][how.from]
                  /\ how.op = "cache" => new.q = qsets[w][how.from].q
                  /\ how.op = "no_cache"
                     => new = [q |-> qsets[w][how.from].q,
                               timeout |-> Some(NO_CACHE)]]_vars

\* C9 witness: the worker holds a default queryset, its no_cache() and a
\* _clone of that; the clone was executed while the result cached for a
\* record that has since been deleted sat under its query key, and yielded
\* what the table holds.
C9_Witness ==
    \E w \in Workers : \E i \in 1..Len(qsets[w]) :
        /\ prov[w][i].op = "_clone"
        /\ prov[w][prov[w][i].from].op = "no_cache"
        /\ qsets[w][prov[w][prov[w][i].from].from].timeout = None
        /\ last[w] = Done(qsets[w][i], iter_function(db, "red"), "direct")
        /\ Cached(store, "red")
        /\ store[query_key("red")] # iter_function(db, "red")

\* C11: when a worker's exhausted miss reaches cache.add and a value is
\* already stored under the query key, the stored value stays as it is, and
\* the worker goes on to register its dependencies and finishes normally.
C11_FirstWriterWins ==
    [][\A w \in Workers :
        /\ (pc[w] = "draining" /\ rows[w] = << >> /\ out[w] # << >>
                /\ pc'[w] # "draining" /\ Cached(store, cur[w].q))
           => /\ store'[query_key(cur[w].q)] = store[query_key(cur[w].q)]
              /\ pc'[w] = "registering"
        /\ (pc[w] = "registering" /\ pc'[w] # "registering")
           => /\ pc'[w] = "idle"
              /\ \A q \in Queries : Cached(store, q) => Kept(query_key(q))]_vars

\* C11 witness: a worker that drained another sequence than the one stored
\* has made its cache.add, and the stored value is still the first one.
C11_Witness ==
    \E w \in Workers :
        /\ pc[w] = "registering"
        /\ Cached(store, cur[w].q)
        /\ store[query_key(cur[w].q)] # out[w]
        /\ Len(store[query_key(cur[w].q)]) = 2

\* C16 (as claimed): with the hooks of every save and delete completed
\* (and no record created so far), an execution served from the cache
\* yields what the table holds.
C16_NoStaleAfterInvalidation ==
    [][\A w \in Workers :
        (/\ nextId = 2
         /\ \A x \in Workers : pc[x] \notin {"saving", "saved", "deleted"}
         /\ RaceStart(w)
         /\ pc'[w] = "idle")
        => last'[w][1].out = iter_function(db, "red")]_vars

\* The non-primary-key columns a query filters on.
FilterColumns(q) ==
    IF get_constraints(q) = << >> THEN {}
    ELSE get_constraints(q)[cols_key("widget")]

\* C17 (as claimed): every column a cached query result filtered on is in
\* the model's ConstraintSet.
C17_ConstraintSetSound ==
    \A q \in Queries :
        Cached(store, q)
        => FilterColumns(q) \subseteq get_flush_lists(store, {cols_key("widget")})

\* C18 (as claimed): with no fill or invalidation in progress, the query key
\* of every cached result is reachable from the flush list of every record
\* it contains and from the flush list of the model.
C18_NoOrphanedResults ==
    (\A w \in Workers : pc[w] = "idle")
    => \A q \in Queries :
          Cached(store, q)
          => /\ query_key(q) \in Dependents(store, {_model_key("widget")})
             /\ \A obj \in Range(store[query_key(q)]) :
                   query_key(q) \in Dependents(store, {cache_key(obj)})

\* C19: pre_save leaves the store unchanged when the save is raw, the
\* instance is new, the ConstraintSet is empty or no watched column differs
\* from the persisted row; otherwise its effect is that of invalidate_model.
C19_PreSaveFrame ==
    [][\A w \in Workers :
        PreSaveStep(w)
        => IF \/ raw'[w]
              \/ inst'[w].id = 0
              \/ get_flush_lists(store, {cols_key("widget")}) = {}
              \/ ~watched'[w]
           THEN store' = store
           ELSE /\ store' = invalidate_model(store)
                /\ cols_key("widget") \notin DOMAIN store']_vars

\* C19 witness: a raw save that changes a watched column has passed
\* pre_save, and the ConstraintSet and a cached query result are in place.
C19_Witness ==
    \E w \in Workers :
        /\ pc[w] = "saving" /\ raw[w] /\ watched[w]
        /\ get_flush_lists(store, {cols_key("widget")}) # {}
        /\ Registered(store, "red")

\* The step of worker w is an m2m_changed event of the named action.
M2mStep(w, name) ==
    /\ pc[w] = "idle" /\ pc'[w] = "idle"
    /\ last'[w] # None /\ last'[w][1].src = name /\ last'[w] # last[w]

\* C20: a pre-change m2m_changed event leaves the store unchanged; a
\* post-change event changes it as post_save of an update of the same
\* record does, evicting what the flush lists of the record's key and of
\* the foreign record it references lead to.
C20_RelationChange ==
    [][\A w \in Workers :
        /\ M2mStep(w, "pre_add") => store' = store
        /\ M2mStep(w, "post_add")
           => LET instance == last'[w][1].out[1]
              IN  /\ store' = post_save(store, instance, FALSE)
                  /\ DOMAIN store' =
                       DOMAIN store \ Dependents(store, Range(_cache_keys(instance)))]_vars

\* C20 witness: a post-change event for a record has just evicted the
\* cached results that read it.
C20_Witness ==
    \E w \in Workers :
        /\ last[w] # None /\ last[w][1].src = "post_add"
        /\ \A q \in Queries : ~Cached(store, q)
        /\ sql_key("red") \in DOMAIN store
        /\ flush_key(_model_key("widget")) \in DOMAIN store

\* Worker w's step is a memoized call of the given kind.
MemoStep(w, kind) ==
    /\ pc[w] = "idle" /\ pc'[w] = "idle"
    /\ memo'.kind = kind /\ memo'.since = "call"
    /\ (memo' # memo \/ store' # store \/ local' # local)

\* C13 (as claimed): a cached_with call that follows another with no
\* invalidation of the owner in between does not invoke f and returns what
\* the earlier call returned, whatever f returns; a call that follows an
\* invalidation of the owner invokes f.
C13_MemoizedOnce ==
    [][\A w \in Workers :
        (memo.kind = "cached_with" /\ CachedWith(w))
        => /\ memo.since = "call" => (~memo'.invoked /\ memo'.ret = memo.ret)
           /\ memo.since = "invalidated" => memo'.invoked]_vars

\* C14: a call of the cached method on an instance that has remembered a
\* value for the arguments returns that value, leaves the cache store as
\* it is and does not call the function, whatever has been invalidated
\* since; a call on an instance that has not (a fresh instance, or other
\* arguments) goes through cached_with and remembers what it returns.
C14_TwoLevel ==
    [][\A w \in Workers :
        MemoStep(w, "method")
        => LET i == memo'.inst
               a == memo'.arg
           IN  IF a \in DOMAIN local[i]
               THEN /\ memo'.ret = local[i][a]
                    /\ ~memo'.invoked /\ ~memo'.consulted
                    /\ store' = store /\ local' = local
               ELSE /\ memo'.consulted
                    /\ store' = cached_with(store, db[1], fval, MethodKey(a)).st
                    /\ memo'.ret = cached_with(store, db[1], fval, MethodKey(a)).ret
                    /\ a \in DOMAIN local'[i] /\ local'[i][a] = memo'.ret
                    /\ \A j \in Instances \ {i} : local'[j] = local[j]
                    /\ \A b \in DOMAIN local[i] : local'[i][b] = local[i][b]]_vars

\* C14 witness: after the record was invalidated and f changed, instance 1
\* has answered from its local dict with the old value, while instance 2,
\* loaded afresh, holds the new value from the store.
C14_Witness ==
    /\ memo.kind = "method" /\ memo.since = "call"
    /\ memo.inst = 1 /\ memo.arg = 1 /\ ~memo.consulted
    /\ memo.ret = Some(1)
    /\ 1 \in DOMAIN local[2] /\ local[2][1] = Some(2)
    /\ _function_cache_key(<< MethodKey(1), cache_key(db[1]) >>) \in DOMAIN store
    /\ store[_function_cache_key(<< MethodKey(1), cache_key(db[1]) >>)] = Some(2)

\* C15: fetch_by_id run again for the same queryset, with no save or
\* delete since the earlier run, yields the same records in the same
\* order, the order of the primary-key query, and fetches none of them
\* from the table: every one comes from its per-record entry.
C15_FetchByIdIdempotent ==
    [][\A w \in Workers :
        (/\ last[w] # None
         /\ last[w][1].src = "fetch_by_id"
         /\ FetchByIdOf(w, last[w][1].q))
        => /\ last'[w][1].out = last[w][1].out
           /\ last'[w][1].missed = {}
           /\ [j \in 1..Len(last'[w][1].out) |-> last'[w][1].out[j].id]
                = [j \in 1..Len(iter_function(db, last[w][1].q)) |->
                       iter_function(db, last[w][1].q)[j].id]
           /\ \A j \in 1..Len(last'[w][1].out) :
                 last'[w][1].out[j] = store[byid(cache_key(last'[w][1].out[j]))]]_vars

\* C15 witness: a run of fetch_by_id has yielded two records without
\* fetching any from the table.
C15_Witness ==
    \E w \in Workers :
        /\ last[w] # None
        /\ last[w][1].src = "fetch_by_id"
        /\ Len(last[w][1].out) = 2
        /\ last[w][1].missed = {}

\* What the store is after the calls of invalidate are made one after
\* another, each one finished before the next begins.
RECURSIVE Serial(_, _)
Serial(st, calls) ==
    IF calls = << >> THEN st
    ELSE Serial(invalidate(st, Head(calls)), Tail(calls))

RECURSIVE Rev(_)
Rev(s) == IF s = << >> THEN << >> ELSE Append(Rev(Tail(s)), Head(s))

\* The keys of st that are gone in st2.
Purged(st, st2) == DOMAIN st \ DOMAIN st2

\* C12: when the last of a chain of overlapping invalidate calls is over,
\* the keys purged from the store since the first began are those purged
\* by the same calls made one after another, in the order they began and
\* in the reverse order; and a call none of whose keys has a flush list
\* when it begins leaves the store as it is.
C12_OverlapOrderIndependent ==
    [][\A w \in Workers :
        /\ (InvPurge(w) /\ \A x \in Workers \ {w} : inv[x] = None)
           => /\ Purged(epoch.base, store')
                 = Purged(epoch.base, Serial(epoch.base, epoch.calls))
              /\ Purged(epoch.base, store')
                 = Purged(epoch.base, Serial(epoch.base, Rev(epoch.calls)))
              /\ \A k \in DOMAIN store' : store'[k] = epoch.base[k]
        /\ (InvPurge(w) /\ inv[w][1].absent) => store' = store]_vars

\* Two calls overlapped, one of them read a flush list the other had
\* already purged, both are over and cached entries were purged.
C12_Witness ==
    /\ epoch.over
    /\ Len(epoch.calls) = 2
    /\ epoch.raced
    /\ \E q \in Queries : Cached(epoch.base, q) /\ ~Cached(store, q)

====
